---- MODULE Spec2Model ----
(***************************************************************************)
(* A model of the in-memory virtual filesystem of cmd/virtual-fs/main.go.  *)
(*                                                                         *)
(* Strings are sequences of one-character strings, so that                 *)
(* strings.HasPrefix, strings.Trim and strings.Split are computed the way  *)
(* the Go library computes them.  Blobs live in a heap `blobs`, a sequence *)
(* of records; a reference to a Blob is its index in the heap and the nil  *)
(* reference is NIL.                                                       *)
(***************************************************************************)
EXTENDS Integers, Sequences, FiniteSets, TLC

VARIABLES
    blobs,   \* the heap: every file/directory struct allocated so far
    tree,    \* filesystem.tree
    wd,      \* filesystem.wd
    fmu,     \* filesystem.mu: NoCaller, or the caller that holds it
    pc,      \* per caller: the position inside the call it is executing
    frame,   \* per caller: the arguments and locals of that call
    ret      \* the command loop's last command that returned, and what it returned

vars == <<blobs, tree, wd, fmu, pc, frame, ret>>

----------------------------------------------------------------------------
(* Bounds and input sets *)

\* At most this many Blobs are created besides the root.
MaxBlobs == 2

NIL == 0
NoCaller == 0

\* The goroutine of main(), and a second caller for the concurrent use the
\* locks are written for.
Main == 1
Callers == {1, 2}

Slash == "/"
Dot == "."

\* Names given to touch and mkdir (args[0] is not validated).
Names == { <<"a">>, <<"b">>, <<>>, <<Dot>>, <<Dot, Dot>>, <<Slash>> }

\* Contents given to CreateFile: ExecuteCommand passes []byte{}.
Contents == { <<>> }

\* Children given to CreateDirectory: ExecuteCommand passes []Blob{}.
ChildrenInputs == { <<>> }

----------------------------------------------------------------------------
(* package strings *)

\* strings.HasPrefix(s, prefix)
HasPrefix(s, prefix) ==
    /\ Len(s) >= Len(prefix)
    /\ SubSeq(s, 1, Len(prefix)) = prefix

RECURSIVE TrimLeft(_, _)
TrimLeft(s, c) ==
    IF s # <<>> /\ Head(s) = c THEN TrimLeft(Tail(s), c) ELSE s

RECURSIVE TrimRight(_, _)
TrimRight(s, c) ==
    IF s # <<>> /\ s[Len(s)] = c THEN TrimRight(SubSeq(s, 1, Len(s) - 1), c) ELSE s

\* strings.Trim(s, cutset) for a cutset of one character
Trim(s, c) == TrimRight(TrimLeft(s, c), c)

\* strings.Split(s, sep) for a separator of one character: the substrings
\* between the separators, so n separators give n+1 substrings and the empty
\* string gives one empty substring.
RECURSIVE SplitFrom(_, _, _)
SplitFrom(s, sep, piece) ==
    IF s = <<>>
    THEN << piece >>
    ELSE IF Head(s) = sep
         THEN << piece >> \o SplitFrom(Tail(s), sep, <<>>)
         ELSE SplitFrom(Tail(s), sep, Append(piece, Head(s)))

Split(s, sep) == SplitFrom(s, sep, <<>>)

----------------------------------------------------------------------------
(* Blob, File, Directory *)

\* NewFile: a file struct; size is never set and Size() is len(content).
NewFile(w, name, content) ==
    [kind |-> "file", parent |-> w, name |-> name, content |-> content,
     children |-> <<>>, mu |-> NoCaller]

\* A NewDirectory that leaves the parent field unset.
NewDirectoryOrphan(w, name, children) ==
    [kind |-> "dir", parent |-> NIL, name |-> name, content |-> <<>>,
     children |-> children, mu |-> NoCaller]

\* NewDirectory: a directory struct with the children it is given.
NewDirectory(w, name, children) ==
    [kind |-> "dir", parent |-> w, name |-> name, content |-> <<>>,
     children |-> children, mu |-> NoCaller]

\* NewRoot: the directory with the empty name and the nil parent.
NewRoot == NewDirectory(NIL, <<>>, <<>>)

\* The type assertion child.(Directory)
IsDir(b, i) == b[i].kind = "dir"

\* An Add that appends the child twice.
AddTwice(b, d, child) ==
    [b EXCEPT ![d].children = Append(Append(@, child), child)]

\* An Add that puts the child in front of the others.
AddFront(b, d, child) ==
    [b EXCEPT ![d].children = <<child>> \o @]

\* An Add that drops the children the Directory had.
AddOverwrites(b, d, child) ==
    [b EXCEPT ![d].children = <<child>>]

\* directory.Add without its locking: the heap after d.children has been
\* replaced by append(d.children, child).
Add(b, d, child) ==
    [b EXCEPT ![d].children = Append(@, child)]

\* new(T): the heap with one more struct, whose reference is Len(b) + 1.
Alloc(b, blob) == Append(b, blob)

----------------------------------------------------------------------------
(* filesystem.ChangeDirectory: the resolution of a path *)

\* A lookup without the type assertion: the first child named part.
RECURSIVE FindBlob(_, _, _)
FindBlob(b, children, part) ==
    IF children = <<>>
    THEN NIL
    ELSE IF b[Head(children)].name = part
         THEN Head(children)
         ELSE FindBlob(b, Tail(children), part)

\* A lookup that keeps scanning after a match: the last Directory named part.
RECURSIVE FindLastDir(_, _, _)
FindLastDir(b, children, part) ==
    IF children = <<>>
    THEN NIL
    ELSE LET k == Len(children)
         IN  IF b[children[k]].kind = "dir" /\ b[children[k]].name = part
             THEN children[k]
             ELSE FindLastDir(b, SubSeq(children, 1, k - 1), part)

\* The loop of the default case: the first child, in the order of
\* wd.Children(), that is a Directory named part; NIL when the loop ends
\* without a match.
RECURSIVE FindDir(_, _, _)
FindDir(b, children, part) ==
    IF children = <<>>
    THEN NIL
    ELSE IF IsDir(b, Head(children)) /\ b[Head(children)].name = part
         THEN Head(children)
         ELSE FindDir(b, Tail(children), part)

\* case "..": the parent when there is one, else the directory itself.
DotDot(b, cur) ==
    IF b[cur].parent # NIL THEN b[cur].parent ELSE cur

\* A loop whose ".." case returns the error when there is no parent.
RECURSIVE WalkNoParentFails(_, _, _)
WalkNoParentFails(b, cur, parts) ==
    IF parts = <<>>
    THEN [ok |-> TRUE, cur |-> cur]
    ELSE LET part == Head(parts)
         IN  IF part = <<Dot>>
             THEN WalkNoParentFails(b, cur, Tail(parts))
             ELSE IF part = <<Dot, Dot>>
             THEN IF b[cur].parent # NIL
                  THEN WalkNoParentFails(b, b[cur].parent, Tail(parts))
                  ELSE [ok |-> FALSE, cur |-> cur]
             ELSE LET v == FindDir(b, b[cur].children, part)
                  IN  IF v # NIL
                      THEN WalkNoParentFails(b, v, Tail(parts))
                      ELSE [ok |-> FALSE, cur |-> cur]

\* The loop over parts.  ok is FALSE when the function returns the error
\* from inside the loop; cur is the local wd when the loop is left.
RECURSIVE Walk(_, _, _)
Walk(b, cur, parts) ==
    IF parts = <<>>
    THEN [ok |-> TRUE, cur |-> cur]
    ELSE LET part == Head(parts)
         IN  IF part = <<Dot>>
             THEN Walk(b, cur, Tail(parts))
             ELSE IF part = <<Dot, Dot>>
             THEN Walk(b, DotDot(b, cur), Tail(parts))
             ELSE LET v == FindDir(b, b[cur].children, part)
                  IN  IF v # NIL
                      THEN Walk(b, v, Tail(parts))
                      ELSE [ok |-> FALSE, cur |-> cur]

\* A start that ignores the leading slash.
StartDirAlwaysWd(t, w, path) == w

\* The directory the resolution starts from.
StartDir(t, w, path) ==
    IF HasPrefix(path, <<Slash>>) THEN t ELSE w

\* The parts without the Trim.
PartsUntrimmed(path) == Split(path, Slash)

\* parts := strings.Split(strings.Trim(path, "/"), "/")
Parts(path) == Split(Trim(path, Slash), Slash)

\* A ChangeDirectory that assigns f.wd as it goes, so that a failing call
\* leaves f.wd where the traversal stopped.
ResolvePartial(b, t, w, path) ==
    IF path = <<Slash>>
    THEN [wd |-> t, err |-> FALSE, cur |-> NIL]
    ELSE LET r == Walk(b, StartDir(t, w, path), Parts(path))
         IN  [wd |-> r.cur, err |-> ~r.ok, cur |-> r.cur]

\* A ChangeDirectory without the early return for "/".
ResolveNoRootCase(b, t, w, path) ==
    LET r == Walk(b, StartDir(t, w, path), Parts(path))
    IN  IF r.ok
        THEN [wd |-> r.cur, err |-> FALSE, cur |-> r.cur]
        ELSE [wd |-> w, err |-> TRUE, cur |-> r.cur]

\* What a call of ChangeDirectory(path) does on heap b with f.tree = t and
\* f.wd = w: the f.wd it leaves, whether it returns the error, and its local
\* wd when it returns (nil on the early return for "/").
Resolve(b, t, w, path) ==
    IF path = <<Slash>>
    THEN [wd |-> t, err |-> FALSE, cur |-> NIL]
    ELSE LET r == Walk(b, StartDir(t, w, path), Parts(path))
         IN  IF r.ok
             THEN [wd |-> r.cur, err |-> FALSE, cur |-> r.cur]
             ELSE [wd |-> w, err |-> TRUE, cur |-> r.cur]

----------------------------------------------------------------------------
(* filesystem.CurrentDirectory: the path it prints *)

\* A loop that puts each name after the path built so far.
RECURSIVE PathLoopAppends(_, _, _)
PathLoopAppends(b, w, path) ==
    LET p == path \o b[w].name \o <<Slash>>
    IN  IF b[w].parent = NIL THEN p ELSE PathLoopAppends(b, b[w].parent, p)

\* The loop of CurrentDirectory: the name of w and a slash are put in front of
\* the path, and the loop goes on with the parent of w until there is none.
RECURSIVE PathLoop(_, _, _)
PathLoop(b, w, path) ==
    LET p == b[w].name \o <<Slash>> \o path
    IN  IF b[w].parent = NIL THEN p ELSE PathLoop(b, b[w].parent, p)

PathOf(b, w) == PathLoop(b, w, <<>>)

----------------------------------------------------------------------------
(* The state after construction *)

\* The option -r of ls, and the option lists given to ls.
DashR == <<"-", "r">>
LsArgs == { <<>>, <<DashR>>, << <<"a">>, DashR >>, << <<"a">> >> }

\* The locals of a caller that is in no call.
NoFrame ==
    [op |-> "none", arg |-> <<>>, blob |-> NIL, parts |-> <<>>, cur |-> NIL,
     from |-> NIL, err |-> FALSE, kids |-> <<>>]

\* What a caller that has returned from no call yet has got.
NoReturn ==
    [op |-> "none", arg |-> <<>>, err |-> FALSE, from |-> NIL, cur |-> NIL, out |-> <<>>]

\* var fs = NewFilesystem(): tree and wd are the fresh root, no lock is held.
Init ==
    /\ blobs = << NewRoot >>
    /\ tree = 1
    /\ wd = 1
    /\ fmu = NoCaller
    /\ pc = [c \in Callers |-> "idle"]
    /\ frame = [c \in Callers |-> NoFrame]
    /\ ret = [c \in Callers |-> NoReturn]

\* The directories of the heap.
Dirs == { i \in 1..Len(blobs) : IsDir(blobs, i) }

\* The paths given to cd.
PathInputs ==
    { <<Slash>>, <<>>, <<Slash, Slash>>,
      <<Dot>>, <<Dot, Dot>>, <<Dot, Dot, Slash, Dot, Dot>>,
      <<"a">>, <<"b">>, <<Slash, "a">>,
      <<"a", Slash, "b">>, <<Slash, "a", Slash, "b">>,
      <<Dot, Dot, Slash, "b">>, <<Slash, Dot, Dot>> }
    \cup { PathOf(blobs, d) : d \in Dirs }

----------------------------------------------------------------------------
(* The command loop of main(): one caller, one command at a time *)

\* No call is in progress.
Quiet == \A c \in Callers : pc[c] = "idle"

\* mkdir: filesystem.CreateDirectory(name, children)
CreateDirectory(name, children) ==
    /\ Quiet
    /\ Len(blobs) <= MaxBlobs
    /\ LET dir == Len(blobs) + 1
       IN  blobs' = Add(Alloc(blobs, NewDirectory(wd, name, children)), wd, dir)
    /\ ret' = [ret EXCEPT ![Main] =
                  [op |-> "mkdir", arg |-> name, err |-> FALSE, from |-> wd,
                   cur |-> NIL, out |-> <<>>]]
    /\ UNCHANGED <<tree, wd, fmu, pc, frame>>

\* touch: filesystem.CreateFile(name, content)
CreateFile(name, content) ==
    /\ Quiet
    /\ Len(blobs) <= MaxBlobs
    /\ LET file == Len(blobs) + 1
       IN  blobs' = Add(Alloc(blobs, NewFile(wd, name, content)), wd, file)
    /\ ret' = [ret EXCEPT ![Main] =
                  [op |-> "touch", arg |-> name, err |-> FALSE, from |-> wd,
                   cur |-> NIL, out |-> <<>>]]
    /\ UNCHANGED <<tree, wd, fmu, pc, frame>>

\* cd: filesystem.ChangeDirectory(path), from taking f.mu to releasing it
ChangeDirectory(path) ==
    /\ Quiet
    /\ fmu = NoCaller
    /\ LET r == Resolve(blobs, tree, wd, path)
       IN  /\ wd' = r.wd
           /\ ret' = [ret EXCEPT ![Main] =
                         [op |-> "cd", arg |-> path, err |-> r.err, from |-> wd,
                          cur |-> r.cur, out |-> <<>>]]
    /\ UNCHANGED <<blobs, tree, fmu, pc, frame>>

\* A CurrentDirectory whose loop moves f.wd itself up to the root.
CurrentDirectoryMovesWd ==
    /\ Quiet
    /\ wd' = tree
    /\ ret' = [ret EXCEPT ![Main] =
                  [op |-> "pwd", arg |-> <<>>, err |-> FALSE, from |-> wd,
                   cur |-> NIL, out |-> PathOf(blobs, wd)]]
    /\ UNCHANGED <<blobs, tree, fmu, pc, frame>>

\* pwd: filesystem.CurrentDirectory(), out being the line it prints
CurrentDirectory ==
    /\ Quiet
    /\ ret' = [ret EXCEPT ![Main] =
                  [op |-> "pwd", arg |-> <<>>, err |-> FALSE, from |-> wd,
                   cur |-> NIL, out |-> PathOf(blobs, wd)]]
    /\ UNCHANGED <<blobs, tree, wd, fmu, pc, frame>>

\* fmt.Sprintf("%d", n) for a natural number n
RECURSIVE Decimal(_)
Decimal(n) ==
    LET digit == <<"0", "1", "2", "3", "4", "5", "6", "7", "8", "9">>[(n % 10) + 1]
    IN  IF n < 10 THEN <<digit>> ELSE Append(Decimal(n \div 10), digit)

\* The row that printChilds writes for a blob shown under the name `name`.
Row(b, blob, name) ==
    IF b[blob].kind = "file"
    THEN [type |-> "file",
          size |-> Decimal(Len(b[blob].content) \div 1024) \o <<"k", "b">>,
          name |-> name]
    ELSE [type |-> "dir", size |-> <<"-">>, name |-> name]

\* printChilds over the children `kids` of a directory: the rows written, a
\* directory's row being followed by those of its children when recursive.
RECURSIVE printChilds(_, _, _, _)
printChilds(b, kids, recursive, prefix) ==
    IF kids = <<>> THEN <<>>
    ELSE LET blob == Head(kids)
             name == IF prefix # <<>>
                     THEN prefix \o <<Slash>> \o b[blob].name
                     ELSE b[blob].name
             below == IF IsDir(b, blob) /\ recursive
                      THEN printChilds(b, b[blob].children, recursive, name)
                      ELSE <<>>
         IN  <<Row(b, blob, name)>> \o below
                \o printChilds(b, Tail(kids), recursive, prefix)

\* The first line that List writes.
Header == [type |-> "TYPE", size |-> <<"S", "I", "Z", "E">>,
           name |-> <<"N", "A", "M", "E">>]

\* ls: filesystem.List(recursive), out being the lines it writes
List(recursive) ==
    /\ Quiet
    /\ ret' = [ret EXCEPT ![Main] =
                  [op |-> "ls", arg |-> IF recursive THEN DashR ELSE <<>>,
                   err |-> FALSE, from |-> wd, cur |-> NIL,
                   out |-> <<Header>> \o printChilds(blobs, blobs[wd].children, recursive, <<>>)]]
    /\ UNCHANGED <<blobs, tree, wd, fmu, pc, frame>>

Mkdir == \E name \in Names, children \in ChildrenInputs : CreateDirectory(name, children)
Touch == \E name \in Names, content \in Contents : CreateFile(name, content)
Cd == \E path \in PathInputs : ChangeDirectory(path)
Pwd == CurrentDirectory
\* ExecuteCommand "ls": recursive when one of the options is -r
Ls == \E args \in LsArgs : List(\E i \in 1..Len(args) : args[i] = DashR)

Next ==
    \/ Mkdir
    \/ Touch
    \/ Cd
    \/ Pwd
    \/ Ls

Spec == Init /\ [][Next]_vars

----------------------------------------------------------------------------
(* Several callers: the same calls, one shared-memory step at a time *)

\* CreateDirectory and CreateFile read f.wd, and ChangeDirectory reads
\* Children(), without the lock their writers hold.  Such a read gives the
\* value from before or from after a write that runs at the same time: both
\* are behaviours here, the read being a step that may come before or after
\* the step of the write.

\* The names and paths the concurrent callers use.
ConcNames == { <<"a">> }
ConcPaths == { <<Slash>>, <<"a">>, <<"a", Slash, "a">> }

\* CreateDirectory, line 113: NewDirectory(f.wd, name, children), f.wd being
\* read without f.mu.
StartCreateDirectory(c, name, children) ==
    /\ pc[c] = "idle"
    /\ Len(blobs) <= MaxBlobs
    /\ blobs' = Alloc(blobs, NewDirectory(wd, name, children))
    /\ frame' = [frame EXCEPT ![c] =
                    [NoFrame EXCEPT !.op = "mkdir", !.arg = name,
                                    !.blob = Len(blobs) + 1, !.from = wd]]
    /\ pc' = [pc EXCEPT ![c] = "recv"]
    /\ UNCHANGED <<tree, wd, fmu, ret>>

\* CreateFile, line 224: NewFile(f.wd, name, content), f.wd being read
\* without f.mu.
StartCreateFile(c, name, content) ==
    /\ pc[c] = "idle"
    /\ Len(blobs) <= MaxBlobs
    /\ blobs' = Alloc(blobs, NewFile(wd, name, content))
    /\ frame' = [frame EXCEPT ![c] =
                    [NoFrame EXCEPT !.op = "touch", !.arg = name,
                                    !.blob = Len(blobs) + 1, !.from = wd]]
    /\ pc' = [pc EXCEPT ![c] = "recv"]
    /\ UNCHANGED <<tree, wd, fmu, ret>>

\* Lines 118 and 229: f.wd is read a second time, as the receiver of Add.
Receiver(c) ==
    /\ pc[c] = "recv"
    /\ frame' = [frame EXCEPT ![c].cur = wd]
    /\ pc' = [pc EXCEPT ![c] = "add_lock"]
    /\ UNCHANGED <<blobs, tree, wd, fmu, ret>>

\* An Add that does not take the lock.
AddNoLock(c) ==
    /\ pc[c] = "add_lock"
    /\ pc' = [pc EXCEPT ![c] = "add_read"]
    /\ UNCHANGED <<blobs, tree, wd, fmu, frame, ret>>

\* directory.Add, line 93: d.mu.Lock()
AddLock(c) ==
    /\ pc[c] = "add_lock"
    /\ blobs[frame[c].cur].mu = NoCaller
    /\ blobs' = [blobs EXCEPT ![frame[c].cur].mu = c]
    /\ pc' = [pc EXCEPT ![c] = "add_read"]
    /\ UNCHANGED <<tree, wd, fmu, frame, ret>>

\* directory.Add, line 95: d.children is read, as the argument of append.
AddRead(c) ==
    /\ pc[c] = "add_read"
    /\ frame' = [frame EXCEPT ![c].kids = blobs[frame[c].cur].children]
    /\ pc' = [pc EXCEPT ![c] = "add_append"]
    /\ UNCHANGED <<blobs, tree, wd, fmu, ret>>

\* directory.Add, line 95: d.children is assigned the slice that append
\* returns, the slice read with the child after it.
AddAppend(c) ==
    /\ pc[c] = "add_append"
    /\ blobs' = [blobs EXCEPT ![frame[c].cur].children =
                                  Append(frame[c].kids, frame[c].blob)]
    /\ pc' = [pc EXCEPT ![c] = "add_unlock"]
    /\ UNCHANGED <<tree, wd, fmu, frame, ret>>

\* directory.Add, line 94: the deferred d.mu.Unlock(); the create call then
\* returns nil and its locals are gone.
AddUnlock(c) ==
    /\ pc[c] = "add_unlock"
    /\ blobs' = [blobs EXCEPT ![frame[c].cur].mu = NoCaller]
    /\ frame' = [frame EXCEPT ![c] = NoFrame]
    /\ pc' = [pc EXCEPT ![c] = "idle"]
    /\ UNCHANGED <<tree, wd, fmu, ret>>

\* ChangeDirectory is called with path.
StartChangeDirectory(c, path) ==
    /\ pc[c] = "idle"
    /\ frame' = [frame EXCEPT ![c] = [NoFrame EXCEPT !.op = "cd", !.arg = path]]
    /\ pc' = [pc EXCEPT ![c] = "cd_lock"]
    /\ UNCHANGED <<blobs, tree, wd, fmu, ret>>

\* Line 174: f.mu.Lock()
CdLock(c) ==
    /\ pc[c] = "cd_lock"
    /\ fmu = NoCaller
    /\ fmu' = c
    /\ pc' = [pc EXCEPT ![c] = "cd_begin"]
    /\ UNCHANGED <<blobs, tree, wd, frame, ret>>

\* Lines 178-192: the early return for "/", else the start directory and
\* the parts.
CdBegin(c) ==
    /\ pc[c] = "cd_begin"
    /\ IF frame[c].arg = <<Slash>>
       THEN /\ wd' = tree
            /\ frame' = [frame EXCEPT ![c].from = wd]
            /\ pc' = [pc EXCEPT ![c] = "cd_unlock"]
       ELSE /\ frame' = [frame EXCEPT ![c].from = wd,
                                      ![c].cur = StartDir(tree, wd, frame[c].arg),
                                      ![c].parts = Parts(frame[c].arg)]
            /\ pc' = [pc EXCEPT ![c] = "cd_loop"]
            /\ UNCHANGED wd
    /\ UNCHANGED <<blobs, tree, fmu, ret>>

\* A loop that assigns f.wd in each iteration instead of its local wd.
CdPartAssigns(c) ==
    /\ pc[c] = "cd_loop"
    /\ frame[c].parts # <<>>
    /\ LET r == Walk(blobs, frame[c].cur, << Head(frame[c].parts) >>)
       IN  IF r.ok
           THEN /\ frame' = [frame EXCEPT ![c].cur = r.cur,
                                          ![c].parts = Tail(frame[c].parts)]
                /\ wd' = r.cur
                /\ UNCHANGED pc
           ELSE /\ frame' = [frame EXCEPT ![c].err = TRUE]
                /\ pc' = [pc EXCEPT ![c] = "cd_unlock"]
                /\ UNCHANGED wd
    /\ UNCHANGED <<blobs, tree, fmu, ret>>

\* Lines 194-216: one iteration of the loop over parts; wd.Children() is
\* read without the directory's lock.
CdPart(c) ==
    /\ pc[c] = "cd_loop"
    /\ frame[c].parts # <<>>
    /\ LET r == Walk(blobs, frame[c].cur, << Head(frame[c].parts) >>)
       IN  IF r.ok
           THEN /\ frame' = [frame EXCEPT ![c].cur = r.cur,
                                          ![c].parts = Tail(frame[c].parts)]
                /\ UNCHANGED pc
           ELSE /\ frame' = [frame EXCEPT ![c].err = TRUE]
                /\ pc' = [pc EXCEPT ![c] = "cd_unlock"]
    /\ UNCHANGED <<blobs, tree, wd, fmu, ret>>

\* Line 218: f.wd = wd, after the last part.
CdAssign(c) ==
    /\ pc[c] = "cd_loop"
    /\ frame[c].parts = <<>>
    /\ wd' = frame[c].cur
    /\ pc' = [pc EXCEPT ![c] = "cd_unlock"]
    /\ UNCHANGED <<blobs, tree, fmu, frame, ret>>

\* A ChangeDirectory that unlocks before its last return only, so that the
\* error return leaves f.mu locked.
CdUnlockNotOnError(c) ==
    /\ pc[c] = "cd_unlock"
    /\ fmu' = IF frame[c].err THEN fmu ELSE NoCaller
    /\ frame' = [frame EXCEPT ![c] = NoFrame]
    /\ pc' = [pc EXCEPT ![c] = "idle"]
    /\ UNCHANGED <<blobs, tree, wd, ret>>

\* Line 175: the deferred f.mu.Unlock(); ChangeDirectory returns what
\* frame[c].err says, and its locals are gone.
CdUnlock(c) ==
    /\ pc[c] = "cd_unlock"
    /\ fmu' = NoCaller
    /\ frame' = [frame EXCEPT ![c] = NoFrame]
    /\ pc' = [pc EXCEPT ![c] = "idle"]
    /\ UNCHANGED <<blobs, tree, wd, ret>>

ConcMkdir == \E c \in Callers, name \in ConcNames, children \in ChildrenInputs :
                StartCreateDirectory(c, name, children)
ConcTouch == \E c \in Callers, name \in ConcNames, content \in Contents :
                StartCreateFile(c, name, content)
ConcReceiver == \E c \in Callers : Receiver(c)
ConcAddLock == \E c \in Callers : AddLock(c)
ConcAddRead == \E c \in Callers : AddRead(c)
ConcAddAppend == \E c \in Callers : AddAppend(c)
ConcAddUnlock == \E c \in Callers : AddUnlock(c)
ConcCd == \E c \in Callers, path \in ConcPaths : StartChangeDirectory(c, path)
ConcCdLock == \E c \in Callers : CdLock(c)
ConcCdBegin == \E c \in Callers : CdBegin(c)
ConcCdPart == \E c \in Callers : CdPart(c)
ConcCdAssign == \E c \in Callers : CdAssign(c)
ConcCdUnlock == \E c \in Callers : CdUnlock(c)

ConcNext ==
    \/ ConcMkdir
    \/ ConcTouch
    \/ ConcReceiver
    \/ ConcAddLock
    \/ ConcAddRead
    \/ ConcAddAppend
    \/ ConcAddUnlock
    \/ ConcCd
    \/ ConcCdLock
    \/ ConcCdBegin
    \/ ConcCdPart
    \/ ConcCdAssign
    \/ ConcCdUnlock

ConcSpec == Init /\ [][ConcNext]_vars

\* A step of caller c that waits for nothing.
Proceed(c) ==
    \/ Receiver(c)
    \/ AddRead(c)
    \/ AddAppend(c)
    \/ AddUnlock(c)
    \/ CdBegin(c)
    \/ CdPart(c)
    \/ CdAssign(c)
    \/ CdUnlock(c)

\* The scheduler runs every goroutine that can run, and sync.Mutex hands a
\* lock that is released again and again to a goroutine that keeps waiting
\* for it (its starvation mode).
Fairness ==
    \A c \in Callers :
        /\ WF_vars(Proceed(c))
        /\ SF_vars(CdLock(c))
        /\ SF_vars(AddLock(c))

FairConcSpec == ConcSpec /\ Fairness

----------------------------------------------------------------------------
(* Vocabulary of the properties *)

\* The last command of main() that returned.
Last == ret[Main]

\* The elements of a sequence.
Range(q) == { q[k] : k \in DOMAIN q }

\* i and the directories above it, following Parent().
RECURSIVE Chain(_, _)
Chain(b, i) == IF i = NIL THEN {} ELSE {i} \cup Chain(b, b[i].parent)

\* The Blobs reachable from the set S through Children().
RECURSIVE Below(_, _)
Below(b, S) ==
    LET T == S \cup UNION { Range(b[i].children) : i \in S }
    IN  IF T = S THEN S ELSE Below(b, T)

\* The Blobs of the tree.
TreeBlobs == Below(blobs, {tree})

\* The positions in p.Children() of the Directories named s.
DirsNamed(p, s) ==
    { k \in DOMAIN blobs[p].children :
        /\ blobs[blobs[p].children[k]].kind = "dir"
        /\ blobs[blobs[p].children[k]].name = s }

\* d is the earliest Directory with its name among the children of its parent.
FirstOfItsName(d) ==
    LET p == blobs[d].parent
        first == CHOOSE k \in DirsNamed(p, blobs[d].name) :
                     \A j \in DirsNamed(p, blobs[d].name) : k <= j
    IN  /\ DirsNamed(p, blobs[d].name) # {}
        /\ blobs[p].children[first] = d

\* A name that a path can spell: not empty, not "." or "..", without "/".
PlainName(n) ==
    /\ n # <<>>
    /\ n # <<Dot>>
    /\ n # <<Dot, Dot>>
    /\ \A k \in DOMAIN n : n[k] # Slash

\* Every Directory from d up to the root's child has a plain name and is the
\* first of its name among its siblings.
Addressable(d) ==
    \A e \in Chain(blobs, d) \ {tree} : PlainName(blobs[e].name) /\ FirstOfItsName(e)

\* How many times Children() of some Directory lists the Blob i.
Listings(i) ==
    Cardinality({ pk \in UNION { {p} \X DOMAIN blobs[p].children : p \in Dirs } :
                    blobs[pk[1]].children[pk[2]] = i })

----------------------------------------------------------------------------
(* C1 *)

\* C1: when ChangeDirectory returns the error, wd is the Directory it was
\* before the call, also when earlier segments of the path had resolved.
C1_FailureAtomicity ==
    (Last.op = "cd" /\ Last.err) => wd = Last.from

\* cd a/b failed at b after a had resolved, and wd is where it was.
C1_Witness ==
    /\ Last.op = "cd"
    /\ Last.err
    /\ Last.arg = <<"a", Slash, "b">>
    /\ Last.cur # Last.from
    /\ wd = Last.from

----------------------------------------------------------------------------
(* C2 *)

\* C2 as stated: for every Directory d, ChangeDirectory with the path that
\* CurrentDirectory computes for d succeeds and makes d the wd.
C2_RoundTripAnyDirectory ==
    \A d \in Dirs :
        (Last.op = "cd" /\ Last.arg = PathOf(blobs, d)) => (~Last.err /\ wd = d)

\* C2, amended: for every Directory d whose ancestors and itself (the root
\* aside) have plain names and are the first Directory of their name among
\* their siblings, ChangeDirectory with the path that CurrentDirectory
\* computes for d succeeds, from any wd, and makes d the wd.
C2_RoundTripAddressable ==
    \A d \in Dirs :
        (Addressable(d) /\ Last.op = "cd" /\ Last.arg = PathOf(blobs, d))
            => (~Last.err /\ wd = d)

\* cd /a/b/ from another directory arrived at the directory whose path it is.
C2_Witness ==
    /\ Last.op = "cd"
    /\ ~Last.err
    /\ Last.arg = PathOf(blobs, wd)
    /\ Last.arg = <<Slash, "a", Slash, "b", Slash>>
    /\ Addressable(wd)
    /\ Last.from # wd

----------------------------------------------------------------------------
(* C3 *)

\* C3: wd is always a Directory of the tree, never nil and never a File, and
\* its Parent links lead to the root.
C3_WdInTree ==
    /\ wd \in 1..Len(blobs)
    /\ blobs[wd].kind = "dir"
    /\ wd \in TreeBlobs
    /\ tree \in Chain(blobs, wd)

\* A failing cd was made in a Directory below the root that holds a File.
C3_Witness ==
    /\ Last.op = "cd"
    /\ Last.err
    /\ blobs[wd].parent = tree
    /\ \E i \in Range(blobs[wd].children) : blobs[i].kind = "file"
    /\ C3_WdInTree

----------------------------------------------------------------------------
(* C4 *)

\* C4: every Blob of the tree with a parent is among the Children() of that
\* parent, and every element of a Directory's Children() has that Directory
\* as its Parent().
C4_ParentChildConsistent ==
    /\ \A i \in TreeBlobs :
          blobs[i].parent # NIL => i \in Range(blobs[blobs[i].parent].children)
    /\ \A p \in Dirs : \A c \in Range(blobs[p].children) : blobs[c].parent = p

\* A Directory below the root holds a Blob of its own.
C4_Witness ==
    \E i \in 1..Len(blobs) :
        /\ blobs[i].parent # NIL
        /\ blobs[i].parent # tree
        /\ i \in Range(blobs[blobs[i].parent].children)

----------------------------------------------------------------------------
(* C5 *)

\* C5: with callers interleaving, a Blob that Children() of a Directory
\* lists has that Directory as its Parent() (the wd at its creation), and
\* is listed exactly once.
C5_ListedUnderItsParent ==
    \A p \in Dirs : \A i \in Range(blobs[p].children) :
        blobs[i].parent = p /\ Listings(i) = 1

----------------------------------------------------------------------------
(* C6 *)

\* The first Directory named s in p.Children(), NIL when there is none.
FirstDirNamed(p, s) ==
    IF DirsNamed(p, s) = {}
    THEN NIL
    ELSE blobs[p].children[CHOOSE k \in DirsNamed(p, s) : \A j \in DirsNamed(p, s) : k <= j]

\* The paths of one segment that is neither "." nor "..".
OneSegment == { <<"a">>, <<"b">>, <<>> }

\* C6: a segment s other than "." and ".." moves the traversal to the first
\* element of Children(), in insertion order, that is a Directory named s:
\* Files named s are skipped, the earliest of several Directories named s
\* is taken, and without such a Directory the call fails.
C6_FirstDirectoryMatch ==
    /\ (Last.op = "cd" /\ Last.arg \in OneSegment) =>
          LET d == FirstDirNamed(Last.from, Last.arg)
          IN  IF d = NIL THEN Last.err ELSE ~Last.err /\ wd = d
    /\ (Last.op = "cd" /\ Last.arg = <<"a", Slash, "b">>) =>
          LET d == FirstDirNamed(Last.from, <<"a">>)
              e == IF d = NIL THEN NIL ELSE FirstDirNamed(d, <<"b">>)
          IN  IF e = NIL THEN Last.err ELSE ~Last.err /\ wd = e

\* cd a went past a File named a to the Directory named a created after it.
C6_Witness ==
    /\ Last.op = "cd"
    /\ Last.arg = <<"a">>
    /\ ~Last.err
    /\ wd # Last.from
    /\ \E k \in DOMAIN blobs[Last.from].children :
          LET c == blobs[Last.from].children[k]
          IN  /\ blobs[c].kind = "file"
              /\ blobs[c].name = <<"a">>
              /\ c < wd

----------------------------------------------------------------------------
(* C7 *)

\* C7: every Blob but the root is listed by exactly one Directory and
\* exactly once there, and no Directory lists the root.
C7_ExclusiveOwnership ==
    /\ \A i \in 1..Len(blobs) : i # tree => Listings(i) = 1
    /\ Listings(tree) = 0

\* Two Blobs were created, in different Directories.
C7_Witness ==
    /\ Len(blobs) = 3
    /\ blobs[2].parent = tree
    /\ blobs[3].parent = 2
    /\ Listings(2) = 1
    /\ Listings(3) = 1

----------------------------------------------------------------------------
(* C8 *)

\* C8: ChangeDirectory("/") succeeds and makes the root the wd, whatever the
\* wd and the tree were, and a second ChangeDirectory("/") changes nothing.
C8_RootReset ==
    (Last.op = "cd" /\ Last.arg = <<Slash>>) =>
        /\ ~Last.err
        /\ wd = tree
        /\ Resolve(blobs, tree, wd, <<Slash>>) =
              [wd |-> wd, err |-> Last.err, cur |-> Last.cur]

\* cd / was made from a Directory two levels down.
C8_Witness ==
    /\ Last.op = "cd"
    /\ Last.arg = <<Slash>>
    /\ Last.from # tree
    /\ blobs[Last.from].parent # tree
    /\ wd = tree

----------------------------------------------------------------------------
(* C9 *)

\* The paths made of ".." segments only.
OnlyDotDot == { <<Dot, Dot>>, <<Dot, Dot, Slash, Dot, Dot>> }

\* C9: a path made of ".." segments only succeeds and ends at wd or above
\* it; from the root it ends at the root, and a single ".." from another
\* Directory ends at its parent.
C9_DotDotStaysInTree ==
    (Last.op = "cd" /\ Last.arg \in OnlyDotDot) =>
        /\ ~Last.err
        /\ wd \in Chain(blobs, Last.from)
        /\ Last.from = tree => wd = tree
        /\ (Last.from # tree /\ Last.arg = <<Dot, Dot>>) => wd = blobs[Last.from].parent

\* cd .. was made at the root, which has a Directory named "..", and the wd
\* is still the root.
C9_Witness ==
    /\ Last.op = "cd"
    /\ Last.arg = <<Dot, Dot>>
    /\ Last.from = tree
    /\ ~Last.err
    /\ wd = tree
    /\ DirsNamed(tree, <<Dot, Dot>>) # {}

----------------------------------------------------------------------------
(* C10 *)

\* C10: a path that begins with "/" has the same outcome from every wd; a
\* path that does not is resolved from the wd, so that one plain name leads
\* to a child of the wd; and cd a/b from the root arrives where cd /a/b
\* arrives from anywhere, at the Directory whose path is /a/b/.
C10_AbsoluteAndRelative ==
    /\ (Last.op = "cd" /\ HasPrefix(Last.arg, <<Slash>>)) =>
          \A w \in Dirs :
              LET r == Resolve(blobs, tree, w, Last.arg)
              IN  r.err = Last.err /\ (~Last.err => r.wd = wd)
    /\ (Last.op = "cd" /\ Last.arg \in { <<"a">>, <<"b">> } /\ ~Last.err) =>
          /\ blobs[wd].parent = Last.from
          /\ blobs[wd].name = Last.arg
    /\ (Last.op = "cd" /\ Last.arg = <<"a", Slash, "b">> /\ Last.from = tree) =>
          /\ \A w \in Dirs :
                LET r == Resolve(blobs, tree, w, <<Slash, "a", Slash, "b">>)
                IN  r.err = Last.err /\ (~Last.err => r.wd = wd)
          /\ ~Last.err => PathOf(blobs, wd) = <<Slash, "a", Slash, "b", Slash>>

\* cd /a/b was made from a Directory that is not the root and arrived at the
\* Directory two levels down.
C10_Witness ==
    /\ Last.op = "cd"
    /\ Last.arg = <<Slash, "a", Slash, "b">>
    /\ ~Last.err
    /\ Last.from # tree
    /\ wd # Last.from
    /\ PathOf(blobs, wd) = <<Slash, "a", Slash, "b", Slash>>

----------------------------------------------------------------------------
(* C11 *)

\* A create call has allocated the Blob i and not yet assigned the
\* Children() that hold it.
BeingAdded(i) ==
    \E c \in Callers :
        /\ frame[c].blob = i
        /\ pc[c] \in {"recv", "add_lock", "add_read", "add_append"}

\* C11: with callers adding at the same time, no append is lost: every
\* Blob whose Add has assigned Children() is listed exactly once, and what
\* an Add assigns is the Children() it found followed by its child, still so
\* when it releases the lock.
C11_NoLostAppend ==
    /\ \A i \in 2..Len(blobs) : Listings(i) = IF BeingAdded(i) THEN 0 ELSE 1
    /\ \A c \in Callers :
          pc[c] = "add_unlock" =>
              blobs[frame[c].cur].children = Append(frame[c].kids, frame[c].blob)

\* One caller has appended to a Directory and still holds its lock, for
\* which the other caller waits with a child of its own.
C11_Witness ==
    /\ pc[1] = "add_unlock"
    /\ pc[2] = "add_lock"
    /\ frame[1].cur = frame[2].cur
    /\ blobs[frame[1].cur].mu = 1
    /\ frame[1].blob # frame[2].blob

----------------------------------------------------------------------------
(* C12 *)

\* The caller c is between f.mu.Lock() and the deferred f.mu.Unlock().
InChangeDirectory(c) == pc[c] \in {"cd_begin", "cd_loop", "cd_unlock"}

\* C12: the callers inside ChangeDirectory's locked section are at most
\* one, the holder of f.mu; while that call walks its path f.wd is the wd
\* from before the call, and once it has left the loop f.wd is that same wd
\* (the call fails) or the Directory the whole path resolves to: no
\* Directory the traversal merely passes is ever in f.wd.
C12_WdNeverHalfUpdated ==
    /\ \A c \in Callers : InChangeDirectory(c) => fmu = c
    /\ \A c, d \in Callers : (InChangeDirectory(c) /\ InChangeDirectory(d)) => c = d
    /\ \A c \in Callers : pc[c] = "cd_loop" => wd = frame[c].from
    /\ \A c \in Callers :
          pc[c] = "cd_unlock" =>
              wd = IF frame[c].err THEN frame[c].from
                   ELSE IF frame[c].arg = <<Slash>> THEN tree
                   ELSE frame[c].cur

\* Caller 1 has resolved the first segment of a/a and not the second; f.wd
\* is still the wd from before, which caller 2 has read as the receiver of
\* its Add.
C12_Witness ==
    /\ pc[1] = "cd_loop"
    /\ frame[1].arg = <<"a", Slash, "a">>
    /\ frame[1].parts = << <<"a">> >>
    /\ frame[1].cur # frame[1].from
    /\ wd = frame[1].from
    /\ pc[2] = "add_lock"
    /\ frame[2].cur = wd

----------------------------------------------------------------------------
(* C13 *)

\* The Directory locks the caller c holds.
DirLocksOf(c) == { d \in 1..Len(blobs) : blobs[d].mu = c }

\* No caller holds f.mu and a Directory lock together, and a caller that is
\* in no call holds no lock.
LocksDisciplined ==
    \A c \in Callers :
        /\ ~(fmu = c /\ DirLocksOf(c) # {})
        /\ pc[c] = "idle" => (fmu # c /\ DirLocksOf(c) = {})

\* C13: no caller holds the filesystem lock and a Directory lock at once,
\* every call has released its lock when it returns, and under fair
\* scheduling every call that has begun returns.
C13_EveryCallReturns ==
    /\ []LocksDisciplined
    /\ \A c \in Callers : (pc[c] # "idle") ~> (pc[c] = "idle")

\* Caller 1 waits for f.mu, held by caller 2 on its way out of a
\* ChangeDirectory that failed.
C13_Witness ==
    /\ pc[1] = "cd_lock"
    /\ fmu = 2
    /\ pc[2] = "cd_unlock"
    /\ frame[2].err

----------------------------------------------------------------------------
(* C14: creation always succeeds and appends at the end *)

\* The kind of Blob that a command creates.
KindMadeBy(op) == IF op = "mkdir" THEN "dir" ELSE "file"

\* C14: whenever touch or mkdir is executed, whatever the name and whatever
\* the names of the Blobs already in wd, it reports no error, exactly one Blob
\* is allocated, of the requested kind and name, and the children of wd
\* afterwards are the children of wd before followed by that Blob.
C14_CreationAppends ==
    [][ /\ (ret'[Main].op \in {"mkdir", "touch"} /\ ret' # ret) => blobs' # blobs
        /\ blobs' # blobs =>
              LET new == Len(blobs) + 1
              IN  /\ ret'[Main].op \in {"mkdir", "touch"}
                  /\ ~ret'[Main].err
                  /\ Len(blobs') = new
                  /\ blobs'[new].kind = KindMadeBy(ret'[Main].op)
                  /\ blobs'[new].name = ret'[Main].arg
                  /\ blobs'[wd'].children = Append(blobs[wd].children, new)
      ]_vars

\* A Directory holds two Blobs of the same name, the second of them made by
\* the command just executed.
C14_Witness ==
    /\ Last.op \in {"mkdir", "touch"}
    /\ Len(blobs[wd].children) = 2
    /\ blobs[wd].children[2] = Len(blobs)
    /\ blobs[blobs[wd].children[1]].name = blobs[blobs[wd].children[2]].name
    /\ blobs[blobs[wd].children[1]].kind # blobs[blobs[wd].children[2]].kind

----------------------------------------------------------------------------
(* C15: only the root has the empty name and the nil parent *)

\* C15: in every state the root, and no other Blob, has the empty name, and
\* the root, and no other Blob, has the nil parent.
C15_OnlyRootUnnamed ==
    \A i \in 1..Len(blobs) :
        /\ blobs[i].name = <<>> <=> i = tree
        /\ blobs[i].parent = NIL <=> i = tree

----------------------------------------------------------------------------
(* C16: the shape of the path that CurrentDirectory prints *)

\* The Directories from the child of the root down to d, d included.
RECURSIVE Descent(_, _)
Descent(b, d) ==
    IF b[d].parent = NIL THEN <<>> ELSE Append(Descent(b, b[d].parent), d)

\* The names of the Directories of q in order, each followed by a slash.
RECURSIVE Segments(_, _)
Segments(b, q) ==
    IF q = <<>> THEN <<>>
    ELSE b[Head(q)].name \o <<Slash>> \o Segments(b, Tail(q))

\* C16: the path printed by pwd is a slash followed by the names of the
\* Directories from the child of the root down to wd, each followed by a
\* slash; it is "/" when wd is the root, and it begins and ends with a slash.
\* The loop over the Parent links ends because every parent was allocated
\* before its child.
C16_PathShape ==
    /\ \A i \in 1..Len(blobs) : blobs[i].parent < i
    /\ Last.op = "pwd" =>
          /\ Last.out = <<Slash>> \o Segments(blobs, Descent(blobs, wd))
          /\ wd = tree => Last.out = <<Slash>>
          /\ Head(Last.out) = Slash
          /\ Last.out[Len(Last.out)] = Slash

\* pwd has printed /a/b/ for a wd two levels below the root.
C16_Witness ==
    /\ Last.op = "pwd"
    /\ Last.out = <<Slash, "a", Slash, "b", Slash>>
    /\ blobs[blobs[wd].parent].parent = tree

----------------------------------------------------------------------------
(* C17: the order and the content of a listing *)

\* The Blobs below the Directories and Files of kids, in pre-order: each Blob
\* of kids in turn, a Directory being followed by what is below it.
RECURSIVE PreOrder(_, _)
PreOrder(b, kids) ==
    IF kids = <<>> THEN <<>>
    ELSE <<Head(kids)>>
            \o (IF IsDir(b, Head(kids)) THEN PreOrder(b, b[Head(kids)].children) ELSE <<>>)
            \o PreOrder(b, Tail(kids))

\* The name under which a listing of the Directory top shows the Blob i: its
\* own name for a child of top, else the shown name of its parent, a slash,
\* and its own name.
RECURSIVE Shown(_, _, _)
Shown(b, i, top) ==
    IF b[i].parent = top THEN b[i].name
    ELSE Shown(b, b[i].parent, top) \o <<Slash>> \o b[i].name

\* C17: after the header, ls writes one row per child of wd in the order of
\* Children(), and ls -r one row per Blob below wd in pre-order, every Blob
\* below wd once; a File row has the size len(content)/1024 followed by kb, a
\* Directory row has "-", and the name of a row is the name of the Blob,
\* prefixed below the first level with the shown name of its parent and "/".
C17_ListingRows ==
    Last.op = "ls" =>
        LET rows == Tail(Last.out)
            order == IF Last.arg = DashR
                     THEN PreOrder(blobs, blobs[wd].children)
                     ELSE blobs[wd].children
        IN  /\ Len(rows) = Len(order)
            /\ Last.arg = DashR =>
                  \A i \in Below(blobs, {wd}) \ {wd} :
                      Cardinality({ k \in DOMAIN order : order[k] = i }) = 1
            /\ \A k \in DOMAIN order :
                  /\ rows[k].type = blobs[order[k]].kind
                  /\ rows[k].size =
                        IF blobs[order[k]].kind = "file"
                        THEN Decimal(Len(blobs[order[k]].content) \div 1024) \o <<"k", "b">>
                        ELSE <<"-">>
                  /\ rows[k].name = Shown(blobs, order[k], wd)

----------------------------------------------------------------------------
(* C18: a path of empty segments fails *)

\* A path other than "/" that holds nothing but slashes: "", "//", "///", ...
OnlySlashes(path) ==
    /\ path # <<Slash>>
    /\ \A k \in DOMAIN path : path[k] = Slash

\* C18: a cd whose path is not "/" and holds nothing but slashes returns the
\* error and leaves wd as it was.
C18_EmptySegmentFails ==
    (Last.op = "cd" /\ OnlySlashes(Last.arg)) => (Last.err /\ wd = Last.from)

----------------------------------------------------------------------------
(* C19: the tree is append-only *)

\* The sequence p is the beginning of the sequence q.
IsPrefix(p, q) == Len(p) <= Len(q) /\ SubSeq(q, 1, Len(p)) = p

\* C19: no command removes a Blob, changes its name, its parent or its kind,
\* or removes or reorders a child: in every step, every Blob that exists is
\* still there with the same name and parent, and the children it had are
\* the beginning of the children it has.
C19_AppendOnly ==
    [][ /\ Len(blobs') >= Len(blobs)
        /\ \A i \in 1..Len(blobs) :
              /\ blobs'[i].name = blobs[i].name
              /\ blobs'[i].parent = blobs[i].parent
              /\ blobs'[i].kind = blobs[i].kind
              /\ IsPrefix(blobs[i].children, blobs'[i].children)
      ]_vars

\* The root, which already had a Directory a, has got a File as second child.
C19_Witness ==
    /\ Last.op = "touch"
    /\ wd = tree
    /\ blobs[tree].children = <<2, 3>>
    /\ blobs[2].kind = "dir" /\ blobs[2].name = <<"a">>
    /\ blobs[3].kind = "file"

----------------------------------------------------------------------------
(* C20: what each command leaves unchanged *)

\* C20: cd, whether it fails or not, pwd and ls change no Blob; pwd, ls,
\* touch and mkdir leave wd as it is; touch and mkdir change none of the
\* Blobs that exist other than the Directory that is wd.
C20_FrameConditions ==
    [][ LET op == ret'[Main].op
        IN  /\ op \in {"cd", "pwd", "ls"} => blobs' = blobs
            /\ op \in {"pwd", "ls", "touch", "mkdir"} => wd' = wd
            /\ op \in {"touch", "mkdir"} =>
                  \A i \in 1..Len(blobs) : i # wd => blobs'[i] = blobs[i]
      ]_vars

\* ls -r has listed a Directory other than the root that has a child.
C20_Witness ==
    /\ Last.op = "ls"
    /\ Last.arg = DashR
    /\ wd # tree
    /\ Len(Last.out) = 2

====
